---- MODULE Spec2Model ----
(***************************************************************************)
(* Astrale: the impact-indicator engine (utils.ts), the Simulation page    *)
(* (presets, sliders, derived indicators), the control panel and the       *)
(* selection / override layer of the 3D viewport.                          *)
(*                                                                         *)
(* Numbers.  TLC has 32-bit integers only, so every JavaScript number is   *)
(* kept in a fixed-point unit, stated where the quantity is defined:       *)
(*   mass      1e12 kg          (slider step 1)                            *)
(*   radius    1/100 km         (slider step 0.05 = 5 units)               *)
(*   velocity  1/10 km/s        (slider step 0.5  = 5 units)               *)
(*   angle     1/1000 degree    (slider step 1    = 1000 units)            *)
(*   gravity   1/100 m/s^2      (slider step 0.1  = 10 units)              *)
(*   density   1/10 g/cm^3      (slider step 0.1  = 1 unit)                *)
(* A result of Math.log10 / Math.pow / Math.max / Math.min is a record     *)
(* [kind, val]: kind "finite" with val in the stated unit, or "nan", or    *)
(* "neginf" (Math.log10(0)).                                               *)
(***************************************************************************)
EXTENDS Integers, Sequences, FiniteSets, TLC

VARIABLES
    calcIn,        \* argument handed to computeDerivedIndicators by a direct caller
    calcOut,       \* what that call returned
    calcDone,      \* TRUE once calcOut is the result for calcIn
    orbIn,         \* a body's component props and an elapsed time, for one frame callback
    orbOut,        \* what that frame computed, and the orbit path drawn for the body
    orbDone,       \* TRUE once orbOut is the result for orbIn
    draws,         \* the Math.random() results one asteroid's composition is built from
    asteroid,      \* the composition generateRandomAsteroids returns for those draws
    generated,     \* TRUE once asteroid is the result for draws
    \* Simulation page (pages/Simulation.tsx)
    selectedPreset,
    params,
    derived,       \* the value held by useMemo(() => computeDerivedIndicators(params), [params])
    \* SimulationControlPanel
    activePlanet,
    planetParams,
    \* SimulationViewport
    focusState,
    selectedAsteroid,
    planetParamsRef,
    latestParamsRef,
    activeTargetRef,
    positionsReady,
    selectedPlanetParams,  \* as computed by the viewport's latest render
    focusPositionRef,  \* where the camera focus target was last copied from
    frame,         \* per body, the overrides its latest useFrame callback applied
    clock,         \* state.clock.getElapsedTime() at the latest frame, in seconds
    spin,          \* per body, mesh.rotation.y, in 1e-6 rad
    published,     \* per body, where its stored position was last copied from
    astronomyData, \* << >> (null) or <<the planets the response has positions for>>
    apiLoading,
    apiError,
    fetchLog,      \* per call of fetchAstronomyData, in order: pending, succeeded, failed
    escaped,       \* TRUE once a rejection has left fetchAstronomyData uncaught
    dataCycle,     \* the call of fetchAstronomyData whose response astronomyData holds, 0 if none
    \* React
    pendingEffects,  \* passive effects of the latest commit that have not run yet
    userEvents       \* number of user events handled so far

calcVars == <<calcIn, calcOut, calcDone>>
orbitVars == <<orbIn, orbOut, orbDone>>
asteroidVars == <<draws, asteroid, generated>>
sceneVars == <<frame, clock, spin, published>>
fetchVars == <<astronomyData, apiLoading, apiError, fetchLog, escaped, dataCycle>>
pageVars == <<selectedPreset, params, derived>>
panelVars == <<activePlanet, planetParams>>
viewportVars == <<focusState, selectedAsteroid, planetParamsRef, latestParamsRef,
                  activeTargetRef, positionsReady, selectedPlanetParams,
                  focusPositionRef, sceneVars, fetchVars>>
uiVars == <<pageVars, panelVars, viewportVars, pendingEffects, userEvents>>
vars == <<calcVars, orbitVars, asteroidVars, uiVars>>

-----------------------------------------------------------------------------
(* JavaScript numbers                                                      *)

Fin(v) == [kind |-> "finite", val |-> v]
NaN == [kind |-> "nan", val |-> 0]
NegInfinity == [kind |-> "neginf", val |-> 0]

IsFinite(x) == x.kind = "finite"
IsNaN(x) == x.kind = "nan"

\* Math.max(a, b): NaN if either is NaN; -Infinity is below every number.
MathMax(a, b) ==
    IF IsNaN(a) \/ IsNaN(b) THEN NaN
    ELSE IF a.kind = "neginf" THEN b
    ELSE IF b.kind = "neginf" THEN a
    ELSE IF a.val >= b.val THEN a ELSE b

\* Math.min(a, b)
MathMin(a, b) ==
    IF IsNaN(a) \/ IsNaN(b) THEN NaN
    ELSE IF a.kind = "neginf" \/ b.kind = "neginf" THEN NegInfinity
    ELSE IF a.val <= b.val THEN a ELSE b

\* floor(x * num / den) without leaving 32 bits (den > 0)
MulDiv(x, num, den) == (x \div den) * num + ((x % den) * num) \div den

Pow10(k) ==
    CASE k = 0 -> 1 [] k = 1 -> 10 [] k = 2 -> 100 [] k = 3 -> 1000
      [] k = 4 -> 10000 [] k = 5 -> 100000 [] k = 6 -> 1000000
      [] k = 7 -> 10000000 [] k = 8 -> 100000000 [] OTHER -> 1000000000

\* 10^(j/10), 10^(j/100), 10^(j/1000) for j = 0..9, scaled by 10^4
Tenth == <<10000, 12589, 15849, 19953, 25119, 31623, 39811, 50119, 63096, 79433>>
Hundredth == <<10000, 10233, 10471, 10715, 10965, 11220, 11482, 11749, 12023, 12303>>
Thousandth == <<10000, 10023, 10046, 10069, 10093, 10116, 10139, 10162, 10186, 10209>>

\* the largest digit j in 0..9 with table[j+1] <= m
DigitOf(table, m) == CHOOSE j \in 0..9 :
    /\ table[j + 1] <= m
    /\ (j = 9 \/ table[j + 2] > m)

\* floor(1000 * log10(n)) for an integer n >= 1, digit by digit
Log10Milli(n) ==
    LET d == CHOOSE k \in 0..9 : Pow10(k) <= n /\ (k = 9 \/ n < Pow10(k + 1))
        m == IF d >= 4 THEN n \div Pow10(d - 4) ELSE n * Pow10(4 - d)
        j1 == DigitOf(Tenth, m)
        m1 == (m * 10000) \div Tenth[j1 + 1]
        j2 == DigitOf(Hundredth, m1)
        m2 == (m1 * 10000) \div Hundredth[j2 + 1]
        j3 == DigitOf(Thousandth, m2)
    IN  d * 1000 + j1 * 100 + j2 * 10 + j3

\* 1000 * 10^(y/1000), for y in thousandths (any sign)
Exp10Milli(y) ==
    LET e == y \div 1000
        f == y % 1000
        mant == (((Tenth[(f \div 100) + 1] * Hundredth[((f \div 10) % 10) + 1]) \div 10000)
                    * Thousandth[(f % 10) + 1]) \div 10000
    IN  IF e >= 1 THEN mant * Pow10(e - 1)
        ELSE IF e >= -8 THEN mant \div Pow10(1 - e)
        ELSE 0

\* Math.log10(x) in thousandths, x = n * 10^scale with n an integer
MathLog10(n, scale) ==
    IF n < 0 THEN NaN
    ELSE IF n = 0 THEN NegInfinity
    ELSE Fin(Log10Milli(n) + 1000 * scale)

\* Math.pow(x, exp/100) in thousandths, for x = n/10 and 0 < exp < 100
MathPow(n, exp) ==
    IF n < 0 THEN NaN
    ELSE IF n = 0 THEN Fin(0)
    ELSE Fin(Exp10Milli(((Log10Milli(n) - 1000) * exp) \div 100))

-----------------------------------------------------------------------------
(* utils.ts: computeDerivedIndicators                                      *)

\* massKg derived from the body's size and density instead of params.mass
MassKg_FromRadius(p) == p.radius * p.density

\* massKg = params.mass - 1e12: about -1e12 kg whatever the mass
MassKg_Subtracted(p) == 0 - 1

\* massKg = params.mass * 1e12, in units of 1e12 kg
MassKg(p) == p.mass

\* velocityMs = params.velocity * 1000, in units of 100 m/s
VelocityMs(p) == p.velocity

\* energy = 0.5 * massKg * velocityMs^2, in units of 1e15 J
\* (0.5 * 1e12 kg * (100 m/s)^2 = 5e15 J)
Energy(p) == 5 * MassKg(p) * VelocityMs(p) * VelocityMs(p)

\* energy / 4.184e18
EnergyMegaton_Gigaton(p) == MulDiv(Energy(p), 1250, 523000)

\* energyMegaton = energy / 4.184e15, in tenths of a megaton
EnergyMegaton(p) == MulDiv(Energy(p), 1250, 523)

\* richter = Math.max(0, (Math.log10(energy) - 4.8) / 1.5), in thousandths
Richter(p) ==
    LET l == MathLog10(Energy(p), 15)
        q == IF IsFinite(l) THEN Fin(((l.val - 4800) * 2) \div 3) ELSE l
    IN  MathMax(Fin(0), q)

\* craterDiameterKm = Math.max(0.8, energyMegaton^0.29 * (1.1 + density * 0.08)),
\* in thousandths of a km
CraterDiameterKm(p) ==
    LET w == MathPow(EnergyMegaton(p), 29)
        q == IF IsFinite(w) THEN Fin((w.val * (1100 + p.density * 8)) \div 1000) ELSE w
    IN  MathMax(Fin(800), q)

\* (params.angle <= 35 ? 1.5 : 1)
TsunamiMultiplier_Inclusive(p) == IF p.angle <= 35000 THEN 15 ELSE 10

\* (params.angle < 35 ? 1.5 : 1), in tenths
TsunamiMultiplier(p) == IF p.angle < 35000 THEN 15 ELSE 10

\* energyMegaton^0.36 * multiplier, before the cap, in thousandths of a metre
TsunamiUncapped(p) ==
    LET w == MathPow(EnergyMegaton(p), 36)
    IN  IF IsFinite(w) THEN Fin((w.val * TsunamiMultiplier(p)) \div 10) ELSE w

\* Math.max(80, ...)
TsunamiHeight_MaxForMin(p) == MathMax(Fin(80000), TsunamiUncapped(p))

\* tsunamiHeight = Math.min(80, ...)
TsunamiHeight(p) == MathMin(Fin(80000), TsunamiUncapped(p))

\* the sub-expressions of 18 - velocity * 0.2 + (40 - angle) * 0.1, in 1e-5 h
WarningVelocityTerm(p) == p.velocity * 2000
WarningAfterVelocity(p) == 1800000 - WarningVelocityTerm(p)
WarningAngleDiff(p) == 40000 - p.angle          \* 40 - angle, in 1/1000 degree
WarningAngleTerm_Unscaled(p) == WarningAngleDiff(p) * 100     \* (40 - angle), the * 0.1 lost
WarningAngleTerm(p) == WarningAngleDiff(p) * 10
WarningSum(p) == WarningAfterVelocity(p) + WarningAngleTerm(p)

\* warningHours = Math.max(2, ...), in 1e-5 h
WarningHours(p) == MathMax(Fin(200000), Fin(WarningSum(p)))

\* Math.min(35, (mass * velocity) / 6)
DeflectionDelta_MinForMax(p) == MathMin(Fin(35 * 60), Fin(p.mass * p.velocity))

\* deflectionDelta = Math.max(35, (mass * velocity) / 6), in 1/60 m/s
DeflectionDelta(p) == MathMax(Fin(35 * 60), Fin(p.mass * p.velocity))

computeDerivedIndicators(p) ==
    [ energy |-> Fin(Energy(p)),
      energyMegaton |-> Fin(EnergyMegaton(p)),
      richter |-> Richter(p),
      craterDiameterKm |-> CraterDiameterKm(p),
      tsunamiHeight |-> TsunamiHeight(p),
      warningHours |-> WarningHours(p),
      deflectionDelta |-> DeflectionDelta(p) ]

IndicatorKeys ==
    {"energy", "energyMegaton", "richter", "craterDiameterKm", "tsunamiHeight",
     "warningHours", "deflectionDelta"}

-----------------------------------------------------------------------------
(* constants.ts: scenarioPresets, controlDefinitions                       *)

ParamKeys == {"mass", "radius", "velocity", "angle", "gravity", "density"}

scenarioPresets ==
    [ impactor |-> [mass |-> 28, radius |-> 90, velocity |-> 220, angle |-> 37000,
                    gravity |-> 981, density |-> 31],
      oceanique |-> [mass |-> 18, radius |-> 70, velocity |-> 190, angle |-> 28000,
                     gravity |-> 950, density |-> 28],
      continental |-> [mass |-> 35, radius |-> 110, velocity |-> 240, angle |-> 49000,
                       gravity |-> 1030, density |-> 35] ]

PresetKeys == {"impactor", "oceanique", "continental"}

controlDefinitions ==
    [ mass |-> [min |-> 2, max |-> 80, step |-> 1],
      radius |-> [min |-> 10, max |-> 250, step |-> 5],
      velocity |-> [min |-> 100, max |-> 450, step |-> 5],
      angle |-> [min |-> 5000, max |-> 80000, step |-> 1000],
      gravity |-> [min |-> 750, max |-> 1150, step |-> 10],
      density |-> [min |-> 15, max |-> 55, step |-> 1] ]

InRange(p) ==
    \A k \in ParamKeys : controlDefinitions[k].min <= p[k] /\ p[k] <= controlDefinitions[k].max

-----------------------------------------------------------------------------
(* SimulationViewport.tsx: bodies, clamp, selection-driven overrides       *)

Null == "null"
DEFAULT_TARGET_KEY == "__default__"

\* earthDefinition followed by planetDefinitions, and the asteroid names of
\* generateRandomAsteroids, in source order ("Venus", "Ceres": accents dropped)
PlanetCatalog == <<"Terre", "Mercure", "Venus", "Mars", "Jupiter", "Saturne", "Uranus", "Neptune">>
AsteroidCatalog == <<"Ceres", "Vesta", "Pallas", "Hygeia", "Interamnia">>

\* the bodies in the scene: Earth, one <Planet> and one <Asteroid>
Planets == {PlanetCatalog[1], PlanetCatalog[2]}
Asteroids == {AsteroidCatalog[1]}
Bodies == Planets \cup Asteroids

NoFocus == [type |-> "none", name |-> Null]
PlanetFocus(b) == [type |-> "planet", name |-> b]
AsteroidFocus(a) == [type |-> "asteroid", name |-> a]

\* focusState?.definition.name ?? null
\* focusState?.definition.name taken from planets only
FocusName_PlanetsOnly(fs) == IF fs.type = "planet" THEN fs.name ELSE Null

FocusName(fs) == fs.name

clamp(value, min, max) ==
    LET lower == IF min >= value THEN min ELSE value
    IN  IF max <= lower THEN max ELSE lower

\* degToRad(value) * 0.02, in units of (pi / 180) * 1e-5 rad, for value in 1/1000 degree
TiltOffsetOf(angle) == angle * 2

\* multipliers are in 1e-4
NoOverride ==
    [radiusMultiplier |-> 10000, speedMultiplier |-> 10000,
     rotationMultiplier |-> 10000, tiltOffset |-> 0]

\* Planet: isSelected && activeParams ? clamp(...) : 1
PlanetOverride(isSelected, activeParams) ==
    IF isSelected /\ activeParams # << >>
    THEN LET p == activeParams[1] IN
         [radiusMultiplier |-> clamp(10000 + p.radius * 8, 4000, 42000),
          speedMultiplier |-> clamp(10000 + p.velocity * 30, 2500, 45000),
          rotationMultiplier |-> clamp(10000 + p.mass * 50, 5000, 42000),
          tiltOffset |-> TiltOffsetOf(p.angle)]
    ELSE NoOverride

\* Earth: the same, with its own clamp bounds for radius and rotation
EarthOverride(isSelected, activeParams) ==
    IF isSelected /\ activeParams # << >>
    THEN LET p == activeParams[1] IN
         [radiusMultiplier |-> clamp(10000 + p.radius * 8, 5000, 40000),
          speedMultiplier |-> clamp(10000 + p.velocity * 30, 2500, 45000),
          rotationMultiplier |-> clamp(10000 + p.mass * 50, 5000, 40000),
          tiltOffset |-> TiltOffsetOf(p.angle)]
    ELSE NoOverride

\* the props with the name comparison left out: focusState?.type === 'planet'
PlanetProps_AnyPlanet(fs, name, rendered) ==
    [isSelected |-> fs.type = "planet",
     activeParams |-> IF fs.type = "planet" THEN rendered ELSE << >>]

\* the isSelected and activeParams props the viewport hands to <Planet> and <Earth>:
\* focusState?.type === 'planet' && focusState.definition.name === planet.name,
\* and selectedPlanetParams under the same condition, else null
PlanetProps(fs, name, rendered) ==
    [isSelected |-> fs.type = "planet" /\ fs.name = name,
     activeParams |-> IF fs.type = "planet" /\ fs.name = name THEN rendered ELSE << >>]

\* what one animation frame applies to body b (asteroids take no override)
FrameOf(b, fs, rendered) ==
    IF b \in Asteroids THEN NoOverride
    ELSE LET props == PlanetProps(fs, b, rendered)
         IN  IF b = "Terre"
             THEN EarthOverride(props.isSelected, props.activeParams)
             ELSE PlanetOverride(props.isSelected, props.activeParams)

\* selectedPlanetParams = selectedBody ? (planetParamsRef.current[name] ?? params) : null
RenderSelectedPlanetParams(fs, ref, p) ==
    IF fs.type = "planet"
    THEN <<IF fs.name \in DOMAIN ref THEN ref[fs.name] ELSE p>>
    ELSE << >>

\* planetParamsRef.current[key] = value
RefSet(ref, key, value) ==
    [k \in DOMAIN ref \cup {key} |-> IF k = key THEN value ELSE ref[k]]

-----------------------------------------------------------------------------
(* SimulationViewport.tsx: orbital kinematics of one frame                 *)
(* Units: lengths 1/1000 scene unit; eccentricity 1e-4; inclination 1e-5   *)
(* degree; orbital speed 1e-4 rad/s; angles 1e-4 rad; time in seconds;      *)
(* rotationSpeed 1/100 rad/s; spin in 1e-6 rad.                             *)

\* integer square root by Newton's iteration, from a start x0 >= sqrt(n)
RECURSIVE SqrtFrom(_, _)
SqrtFrom(n, x) ==
    LET y == (x + n \div x) \div 2
    IN  IF y >= x THEN x ELSE SqrtFrom(n, y)

\* 10^4 * Math.sqrt(1 - e * e), e in 1e-4
SqrtOneMinusSquare(e) == SqrtFrom(100000000 - e * e, 10000)

\* x / d rounded to the nearest integer (x >= 0, d > 0)
RoundDiv(x, d) == (x + d \div 2) \div d

\* a fixed-point value kept within [0, 1000]
Unit(v) == IF v < 0 THEN 0 ELSE IF v > 1000 THEN 1000 ELSE v

\* cosine and sine of f milliradians, 0 <= f <= pi/2, in thousandths (Taylor)
CosQuarter(f) ==
    LET s == RoundDiv(f * f, 1000)
    IN  Unit(1000 - RoundDiv(s, 2) + RoundDiv(s * s, 24000)
                  - RoundDiv(RoundDiv(s * s, 1000) * s, 720000))

SinQuarter(f) ==
    LET s == RoundDiv(f * f, 1000)
        c3 == RoundDiv(f * s, 1000)
        c5 == RoundDiv(c3 * s, 1000)
        c7 == RoundDiv(c5 * s, 1000)
    IN  Unit(f - RoundDiv(c3, 6) + RoundDiv(c5, 120) - RoundDiv(c7, 5040))

\* Math.cos / Math.sin of an angle in 1e-4 rad, in thousandths
MathCos(angle) ==
    LET r == (angle \div 10) % 6283
        q == r \div 1571
        f == r - q * 1571
    IN  CASE q = 0 -> CosQuarter(f)
          [] q = 1 -> 0 - SinQuarter(f)
          [] q = 2 -> 0 - CosQuarter(f)
          [] OTHER -> SinQuarter(f)

MathSin(angle) ==
    LET r == (angle \div 10) % 6283
        q == r \div 1571
        f == r - q * 1571
    IN  CASE q = 0 -> SinQuarter(f)
          [] q = 1 -> CosQuarter(f)
          [] q = 2 -> 0 - SinQuarter(f)
          [] OTHER -> 0 - CosQuarter(f)

\* inclination (1e-5 degree) to 1e-4 rad
InclinationRad(inclination) == MulDiv(inclination, 1745, 1000000)

\* earthDefinition, planetDefinitions[0] (Mercure) and one asteroid of
\* generateRandomAsteroids (index 0, every Math.random() drawn as 1/2)
BodyDefinition ==
    [ Terre |-> [kind |-> "earth", semiMajorAxis |-> 32000, eccentricity |-> 167,
                 inclination |-> 0, speed |-> 1200, phase |-> 0, rotationSpeed |-> 25],
      Mercure |-> [kind |-> "planet", semiMajorAxis |-> 12384, eccentricity |-> 2056,
                   inclination |-> 2100000, speed |-> 4980, phase |-> 0,
                   rotationSpeed |-> 18],
      Ceres |-> [kind |-> "asteroid", semiMajorAxis |-> 91200, eccentricity |-> 1250,
                 inclination |-> 2250000, speed |-> 600, phase |-> 0,
                 rotationSpeed |-> 50] ]

\* orbitSemiMinor = a * Math.sqrt(1 - e * e)
OrbitSemiMinor(def) == MulDiv(def.semiMajorAxis, SqrtOneMinusSquare(def.eccentricity), 10000)

\* orbitSpeed = definition.orbit.speed * speedMultiplier
OrbitSpeed(def, override) == MulDiv(def.speed, override.speedMultiplier, 10000)

\* angle = time * orbitSpeed + phase (Earth: time * orbitSpeed, its phase being 0)
OrbitAngle(def, override, time) ==
    IF def.kind = "earth" THEN time * OrbitSpeed(def, override)
    ELSE time * OrbitSpeed(def, override) + def.phase

\* x = cos(angle) * a: the ellipse centred on the origin
PlanarX_Centred(def, angle) == (MathCos(angle) * def.semiMajorAxis) \div 1000

\* the planar point before the tilt: x = cos(angle) * a - a * e, z = sin(angle) * b
PlanarX(def, angle) ==
    (MathCos(angle) * def.semiMajorAxis) \div 1000
        - MulDiv(def.semiMajorAxis, def.eccentricity, 10000)
PlanarZ(def, angle) == (MathSin(angle) * OrbitSemiMinor(def)) \div 1000

\* orbitInclination / dynamicTilt = definition.orbit.inclination + tiltOffset:
\* the inclination handed to <OrbitPath>
PathInclination(def, override) == def.inclination + override.tiltOffset

\* the angle of the rotation about the x axis applied to the planar point:
\* orbitQuaternion for Planet and Asteroid; Earth applies its quaternion only
\* if (EARTH_ORBIT_TILT !== 0), and EARTH_ORBIT_TILT is degToRad(0)
PositionInclination(def, override) ==
    IF def.kind = "earth"
    THEN (IF def.inclination # 0 THEN def.inclination + override.tiltOffset ELSE 0)
    ELSE def.inclination + override.tiltOffset

\* new Vector3(x, 0, z).applyQuaternion(rotation about x by inclination)
ApplyTilt(x, z, inclination) ==
    [x |-> x,
     y |-> 0 - (z * MathSin(InclinationRad(inclination))) \div 1000,
     z |-> (z * MathCos(InclinationRad(inclination))) \div 1000]

\* the overrides a body's component derives from its props
OverrideOf(def, isSelected, activeParams) ==
    CASE def.kind = "earth" -> EarthOverride(isSelected, activeParams)
      [] def.kind = "planet" -> PlanetOverride(isSelected, activeParams)
      [] OTHER -> NoOverride

\* what one useFrame callback computes at elapsed time `time`
FrameSample(def, override, time) ==
    LET angle == OrbitAngle(def, override, time)
        x == PlanarX(def, angle)
        z == PlanarZ(def, angle)
    IN  [angle |-> angle,
         planar |-> [x |-> x, y |-> 0, z |-> z],
         position |-> ApplyTilt(x, z, PositionInclination(def, override)),
         positionInclination |-> PositionInclination(def, override),
         pathInclination |-> PathInclination(def, override),
         override |-> override]

\* rotation.y += delta * rotationSpeed * rotationMultiplier
SpinStep(def, override, delta) == delta * def.rotationSpeed * override.rotationMultiplier

ORBIT_SEGMENTS == 240

\* OrbitPath: for (i = 0; i <= ORBIT_SEGMENTS; i += 1) the point at
\* theta = (i / ORBIT_SEGMENTS) * Math.PI * 2, tilted by orbit.inclination
PathTheta(i, segments) == MulDiv(i, 62830, segments)

\* for (i = 0; i < ORBIT_SEGMENTS; i += 1)
OrbitPathPoints_Open(def, inclination, segments) ==
    [n \in 1..segments |->
        LET theta == PathTheta(n - 1, segments)
        IN  ApplyTilt(PlanarX(def, theta), PlanarZ(def, theta), inclination)]

OrbitPathPoints(def, inclination, segments) ==
    [n \in 1..(segments + 1) |->
        LET theta == PathTheta(n - 1, segments)
        IN  ApplyTilt(PlanarX(def, theta), PlanarZ(def, theta), inclination)]

-----------------------------------------------------------------------------
(* SimulationViewport.tsx: generateRandomAsteroids, the composition        *)
(* Units: a Math.random() result in thousandths; roche, glace, fer and     *)
(* remaining in 1/1000 percent; nickel and silicate in 1e-6 percent.       *)

\* Math.round(x) for x given in 1/unit: the nearest integer, halves upwards
MathRound(x, unit) == (2 * x + unit) \div (2 * unit)

\* the composition built from the four draws d.roche, d.glace, d.fer, d.nickel
generateComposition(d) ==
    LET roche == 30000 + d.roche * 40
        glace == d.glace * 30
        fer == d.fer * 25
        remaining == 100000 - roche - glace - fer
        nickel == remaining * d.nickel
        silicate == remaining * 1000 - nickel
    IN  [ roche |-> MathRound(roche, 1000),
          glace |-> MathRound(glace, 1000),
          fer |-> MathRound(fer, 1000),
          nickel |-> MathRound(nickel, 1000000),
          silicate |-> MathRound(silicate, 1000000) ]

\* roche + glace + fer + nickel + silicate as displayed in the asteroid card
CompositionTotal(c) == c.roche + c.glace + c.fer + c.nickel + c.silicate

-----------------------------------------------------------------------------
(* pages/Simulation.tsx                                                    *)

\* useMemo(..., []): the value of the first render is kept
useMemoDerived_EmptyDeps(prevParams, prevDerived, newParams) == prevDerived

\* useMemo(() => computeDerivedIndicators(params), [params]) on a render whose
\* params are newParams, the previous render having had prevParams
useMemoDerived(prevParams, prevDerived, newParams) ==
    IF newParams # prevParams THEN computeDerivedIndicators(newParams) ELSE prevDerived

\* the number of user events (clicks, menu and slider changes) a run handles
MaxEvents == 3

\* max={control.max + control.step}
SliderValues_PastMax(k) ==
    {controlDefinitions[k].min, controlDefinitions[k].max + controlDefinitions[k].step}

\* the values an <input type="range" min max step> reports lie on the step grid
\* from min to max; the two ends are the positions tried
SliderValues(k) == {controlDefinitions[k].min, controlDefinitions[k].max}

InitUI ==
    /\ selectedPreset = "impactor"
    /\ params = scenarioPresets.impactor
    /\ derived = computeDerivedIndicators(scenarioPresets.impactor)
    /\ activePlanet = Null
    /\ planetParams = scenarioPresets.impactor
    /\ focusState = NoFocus
    /\ selectedAsteroid = Null
    /\ planetParamsRef = [k \in {DEFAULT_TARGET_KEY} |-> scenarioPresets.impactor]
    /\ latestParamsRef = scenarioPresets.impactor
    /\ activeTargetRef = Null
    /\ positionsReady = FALSE
    /\ selectedPlanetParams = << >>
    /\ focusPositionRef = "origin"
    /\ frame = [b \in Bodies |-> NoOverride]
    /\ clock = 0
    /\ spin = [b \in Bodies |-> 0]
    /\ published = [b \in Bodies |-> "none"]
    /\ astronomyData = << >>
    /\ apiLoading = TRUE
    /\ apiError = Null
    /\ fetchLog = <<"pending">>
    /\ escaped = FALSE
    /\ dataCycle = 0
    /\ pendingEffects = {}
    /\ userEvents = 0

\* event handlers run only once the passive effects of the last commit have run
Idle == pendingEffects = {}

\* one user event, handled by handler
UserEvent(handler) ==
    /\ Idle
    /\ userEvents < MaxEvents
    /\ handler
    /\ userEvents' = userEvents + 1

\* a render of Simulation renders both children: the memo and the viewport's
\* selectedPlanetParams are recomputed
RenderPage(newPreset, newParams, effects) ==
    /\ selectedPreset' = newPreset
    /\ params' = newParams
    /\ derived' = useMemoDerived(params, derived, newParams)
    /\ selectedPlanetParams' = RenderSelectedPlanetParams(focusState, planetParamsRef, newParams)
    /\ pendingEffects' = effects

\* handlePresetChange: setSelectedPreset(preset); the <select> reports changes only
handlePresetChange(preset) ==
    /\ preset # selectedPreset
    /\ RenderPage(preset, params, {"preset"})
    /\ UNCHANGED <<calcVars, orbitVars, asteroidVars, panelVars, focusState, selectedAsteroid,
                   planetParamsRef, latestParamsRef, activeTargetRef, positionsReady,
                   focusPositionRef, sceneVars, fetchVars>>

\* handleParamChange without its setSelectedPreset('personnalise')
handleParamChange_KeepsPreset(key, value) ==
    /\ RenderPage(selectedPreset,
                  [params EXCEPT ![key] = IF IsNaN(value) THEN params[key] ELSE value.val],
                  {"params"})
    /\ UNCHANGED <<calcVars, orbitVars, asteroidVars, panelVars, focusState, selectedAsteroid,
                   planetParamsRef, latestParamsRef, activeTargetRef, positionsReady,
                   focusPositionRef, sceneVars, fetchVars>>

\* handleParamChange with Number.isNaN(value) ? control minimum : value
handleParamChange_NaNAsMin(key, value) ==
    /\ RenderPage("personnalise",
                  [params EXCEPT ![key] = IF IsNaN(value) THEN controlDefinitions[key].min
                                          ELSE value.val],
                  {"params"} \cup (IF selectedPreset # "personnalise" THEN {"preset"} ELSE {}))
    /\ UNCHANGED <<calcVars, orbitVars, asteroidVars, panelVars, focusState, selectedAsteroid,
                   planetParamsRef, latestParamsRef, activeTargetRef, positionsReady,
                   focusPositionRef, sceneVars, fetchVars>>

\* handleParamChange(key, value), value a JavaScript number (Fin(v) or NaN):
\* setParams(previous => ({...previous, [key]: Number.isNaN(value) ?
\* previous[key] : value})), always a new object; setSelectedPreset('personnalise')
handleParamChange(key, value) ==
    /\ RenderPage("personnalise",
                  [params EXCEPT ![key] = IF IsNaN(value) THEN params[key] ELSE value.val],
                  {"params"} \cup (IF selectedPreset # "personnalise" THEN {"preset"} ELSE {}))
    /\ UNCHANGED <<calcVars, orbitVars, asteroidVars, panelVars, focusState, selectedAsteroid,
                   planetParamsRef, latestParamsRef, activeTargetRef, positionsReady,
                   focusPositionRef, sceneVars, fetchVars>>

-----------------------------------------------------------------------------
(* SimulationViewport.tsx: selection handlers                              *)

\* a render of the viewport alone, after one of its own state setters
RenderViewport(newFocus, newAsteroid, effects) ==
    /\ focusState' = newFocus
    /\ selectedAsteroid' = newAsteroid
    /\ selectedPlanetParams' = RenderSelectedPlanetParams(newFocus, planetParamsRef, params)
    /\ pendingEffects' = effects
    /\ UNCHANGED <<calcVars, orbitVars, asteroidVars, pageVars, panelVars, planetParamsRef,
                   latestParamsRef, activeTargetRef, positionsReady, sceneVars, fetchVars>>

\* handlePlanetSelect without its setSelectedAsteroid(null)
handlePlanetSelect_KeepsAsteroid(name, position) ==
    /\ focusPositionRef' = position
    /\ RenderViewport(PlanetFocus(name), selectedAsteroid, {"focus"})

\* handlePlanetSelect: focusPositionRef.current.set(position);
\* setFocusState({definition, type: 'planet'}); setSelectedAsteroid(null)
handlePlanetSelect(name, position) ==
    /\ focusPositionRef' = position
    /\ RenderViewport(PlanetFocus(name), Null, {"focus"})

\* handleAsteroidSelect: focusPositionRef.current.set(position);
\* setSelectedAsteroid(definition); setFocusState({.., 'asteroid'})
handleAsteroidSelect(name, position) ==
    /\ focusPositionRef' = position
    /\ RenderViewport(AsteroidFocus(name), name, {"focus"})

\* handleResetFocus without its setFocusState(null)
handleResetFocus_KeepsFocus(newAsteroid) ==
    /\ focusPositionRef' = "origin"
    /\ RenderViewport(focusState, newAsteroid, {})

\* handleResetFocus: setFocusState(null), which re-renders only if a body was
\* focused; focusPositionRef.current.set(0, 0, 0)
handleResetFocus(newAsteroid) ==
    /\ focusPositionRef' = "origin"
    /\ RenderViewport(NoFocus, newAsteroid, IF focusState # NoFocus THEN {"focus"} ELSE {})

\* onPointerMissed with button 0: handleResetFocus(); setSelectedAsteroid(null)
onPointerMissed == handleResetFocus(Null)

\* the value shown by the "Cibler une planete" <select>: selectedBody?.name ?? ''
MenuValue == IF focusState.type = "planet" THEN focusState.name ELSE ""

\* handleMenuPlanetSelect: the <select> is disabled until positionsReady and
\* reports changes only; '' resets the focus, a planet name selects it when its
\* position is stored (every planet's is, once positionsReady)
handleMenuPlanetSelect(planetName) ==
    /\ positionsReady
    /\ planetName # MenuValue
    /\ IF planetName = ""
       THEN handleResetFocus(selectedAsteroid)
       ELSE /\ published[planetName] # "none"
            /\ handlePlanetSelect(planetName, published[planetName])

\* the "Fermer" button of the asteroid card: setSelectedAsteroid(null)
CloseAsteroidCard ==
    /\ selectedAsteroid # Null
    /\ RenderViewport(focusState, Null, {})
    /\ UNCHANGED focusPositionRef

-----------------------------------------------------------------------------
(* Passive effects                                                         *)

\* viewport, useEffect [params]: latestParamsRef and the default target's snapshot
ParamsEffect(ref) ==
    IF activeTargetRef = Null THEN RefSet(ref, DEFAULT_TARGET_KEY, params) ELSE ref

\* emitFocusChange(definition): the snapshot stored for and sent with the target
EmitSnapshot(ref, latest, name) ==
    LET key == IF name = Null THEN DEFAULT_TARGET_KEY ELSE name
    IN  IF key \in DOMAIN ref THEN ref[key]
        ELSE IF DEFAULT_TARGET_KEY \in DOMAIN ref THEN ref[DEFAULT_TARGET_KEY]
        ELSE latest

\* the effects queued by the latest commit run together, children first:
\* the viewport's [params] effect, its [focusState] effect (which dispatches
\* selected-planet-change to the panel), then the page's [selectedPreset] effect
\* (whose setParams renders the page again)
RunEffects ==
    /\ pendingEffects # {}
    /\ LET ref1 == IF "params" \in pendingEffects THEN ParamsEffect(planetParamsRef)
                   ELSE planetParamsRef
           latest1 == IF "params" \in pendingEffects THEN params ELSE latestParamsRef
           nextName == FocusName(focusState)
           emits == "focus" \in pendingEffects /\ activeTargetRef # nextName
           snapshot == EmitSnapshot(ref1, latest1, nextName)
           key == IF nextName = Null THEN DEFAULT_TARGET_KEY ELSE nextName
           ref2 == IF emits THEN RefSet(ref1, key, snapshot) ELSE ref1
           applies == "preset" \in pendingEffects /\ selectedPreset # "personnalise"
       IN  /\ planetParamsRef' = ref2
           /\ latestParamsRef' = latest1
           /\ activeTargetRef' = IF "focus" \in pendingEffects THEN nextName ELSE activeTargetRef
           /\ activePlanet' = IF emits THEN nextName ELSE activePlanet
           /\ planetParams' = IF emits THEN snapshot ELSE planetParams
           /\ IF applies
              THEN /\ params' = scenarioPresets[selectedPreset]
                   /\ derived' = useMemoDerived(params, derived, params')
                   /\ selectedPlanetParams' =
                          RenderSelectedPlanetParams(focusState, ref2, params')
                   /\ pendingEffects' = {"params"}
              ELSE /\ pendingEffects' = {}
                   /\ UNCHANGED <<params, derived, selectedPlanetParams>>
    /\ UNCHANGED <<calcVars, orbitVars, asteroidVars, selectedPreset, focusState, selectedAsteroid,
                   positionsReady, focusPositionRef, sceneVars, fetchVars, userEvents>>

-----------------------------------------------------------------------------
(* SimulationControlPanel.tsx: the per-planet sliders                      *)

\* handlePlanetParamChange writing the default target's entry instead of
\* the active planet's
handlePlanetParamChange_DefaultKey(key, value) ==
    /\ activePlanet # Null
    /\ value # planetParams[key]
    /\ LET updated == [planetParams EXCEPT ![key] = value]
       IN  /\ planetParams' = updated
           /\ planetParamsRef' = RefSet(planetParamsRef, DEFAULT_TARGET_KEY, updated)
    /\ UNCHANGED <<calcVars, orbitVars, asteroidVars, pageVars, activePlanet, focusState,
                   selectedAsteroid, latestParamsRef, activeTargetRef, positionsReady,
                   selectedPlanetParams, focusPositionRef, sceneVars, fetchVars,
                   pendingEffects>>

\* handlePlanetParamChange: shown only while activePlanet is set; stores the
\* updated params and dispatches update-planet-params, whose viewport listener
\* writes planetParamsRef.current[planetName]
handlePlanetParamChange(key, value) ==
    /\ activePlanet # Null
    /\ value # planetParams[key]
    /\ LET updated == [planetParams EXCEPT ![key] = value]
       IN  /\ planetParams' = updated
           /\ planetParamsRef' = RefSet(planetParamsRef, activePlanet, updated)
    /\ UNCHANGED <<calcVars, orbitVars, asteroidVars, pageVars, activePlanet, focusState,
                   selectedAsteroid, latestParamsRef, activeTargetRef, positionsReady,
                   selectedPlanetParams, focusPositionRef, sceneVars, fetchVars,
                   pendingEffects>>

-----------------------------------------------------------------------------
(* Animation frame: the useFrame callbacks of every body                   *)

\* the elapsed time a run is followed for, in frames of one second
MaxFrames == 2

\* astronomicalPositions.get(definition.name): the API position of a planet, if any
HasRealPosition(data, name) == data # << >> /\ name \in data[1]

\* handlePlanetPositionUpdate / handleAsteroidPositionUpdate: finalPosition is
\* realPosition || position for a planet, the simulated position for an asteroid
FinalPositionSource(data, b) ==
    IF b \in Planets /\ HasRealPosition(data, b) THEN "api" ELSE "simulated"

\* one animation frame: every body's useFrame callback runs with the props of
\* the latest render; the first frame registers every planet, and its
\* setPositionsReady(true) renders the viewport again
Tick ==
    /\ Idle
    /\ clock < MaxFrames
    /\ clock' = clock + 1
    /\ frame' = [b \in Bodies |-> FrameOf(b, focusState, selectedPlanetParams)]
    /\ spin' = [b \in Bodies |-> spin[b] + SpinStep(BodyDefinition[b], frame'[b], 1)]
    /\ published' = [b \in Bodies |-> FinalPositionSource(astronomyData, b)]
    /\ focusPositionRef' =
           IF focusState.type = "planet" THEN published'[focusState.name]
           ELSE IF focusState.type = "asteroid" /\ selectedAsteroid = focusState.name
           THEN published'[focusState.name]
           ELSE focusPositionRef
    /\ positionsReady' = TRUE
    /\ selectedPlanetParams' =
           IF positionsReady THEN selectedPlanetParams
           ELSE RenderSelectedPlanetParams(focusState, planetParamsRef, params)
    /\ UNCHANGED <<calcVars, orbitVars, asteroidVars, pageVars, panelVars, focusState, selectedAsteroid,
                   planetParamsRef, latestParamsRef, activeTargetRef, fetchVars,
                   pendingEffects, userEvents>>

-----------------------------------------------------------------------------
(* SimulationViewport.tsx: the live-position fetch cycle                   *)

\* the calls of fetchAstronomyData a run follows: the one at mount, then the
\* 5-minute interval
MaxFetches == 2

\* the planets a response carries a position for (after mapPlanetName)
ResponseSamples == {{}, {"Mercure"}, Planets}

\* try { ... } finally { setApiLoading(false) } with the catch clause missing
SettleFetch_NoCatch(result, data) ==
    IF result = "succeeded"
    THEN [astronomyData |-> <<data>>, apiError |-> apiError, apiLoading |-> FALSE,
          escaped |-> escaped]
    ELSE [astronomyData |-> astronomyData, apiError |-> apiError, apiLoading |-> FALSE,
          escaped |-> TRUE]

\* fetchAstronomyData after its await: setAstronomyData(data) on success;
\* catch: setApiError(message); finally: setApiLoading(false)
SettleFetch(result, data) ==
    IF result = "succeeded"
    THEN [astronomyData |-> <<data>>, apiError |-> apiError, apiLoading |-> FALSE,
          escaped |-> escaped]
    ELSE [astronomyData |-> astronomyData, apiError |-> "Failed to fetch", apiLoading |-> FALSE,
          escaped |-> escaped]

\* setInterval(fetchAstronomyData, 5 * 60 * 1000) fires: setApiLoading(true);
\* setApiError(null); the request is awaited; the viewport renders again
IntervalFires ==
    /\ Idle
    /\ Len(fetchLog) < MaxFetches
    /\ fetchLog' = Append(fetchLog, "pending")
    /\ apiLoading' = TRUE
    /\ apiError' = Null
    /\ selectedPlanetParams' = RenderSelectedPlanetParams(focusState, planetParamsRef, params)
    /\ UNCHANGED <<calcVars, orbitVars, asteroidVars, pageVars, panelVars, focusState, selectedAsteroid,
                   planetParamsRef, latestParamsRef, activeTargetRef, positionsReady,
                   focusPositionRef, sceneVars, astronomyData, escaped, dataCycle,
                   pendingEffects, userEvents>>

\* the awaited fetchCelestialPositions of call i resolves with a response or
\* rejects (network error, !response.ok, invalid JSON); the viewport renders again
FetchSettles(i, result, data) ==
    /\ Idle
    /\ i \in DOMAIN fetchLog
    /\ fetchLog[i] = "pending"
    /\ fetchLog' = [fetchLog EXCEPT ![i] = result]
    /\ LET after == SettleFetch(result, data)
       IN  /\ astronomyData' = after.astronomyData
           /\ apiError' = after.apiError
           /\ apiLoading' = after.apiLoading
           /\ escaped' = after.escaped
    /\ dataCycle' = IF result = "succeeded" THEN i ELSE dataCycle
    /\ selectedPlanetParams' = RenderSelectedPlanetParams(focusState, planetParamsRef, params)
    /\ UNCHANGED <<calcVars, orbitVars, asteroidVars, pageVars, panelVars, focusState, selectedAsteroid,
                   planetParamsRef, latestParamsRef, activeTargetRef, positionsReady,
                   focusPositionRef, sceneVars, pendingEffects, userEvents>>

-----------------------------------------------------------------------------
(* Direct calls of computeDerivedIndicators                                *)

\* arguments tried: the slider bounds, the presets' values, the two sides of
\* the angle threshold, and values outside the slider ranges
MassSamples == {0 - 1, 0, 2, 18, 28, 80, 100}
VelocitySamples == {0, 100, 190, 220, 450, 600}
AngleSamples == {0 - 10000, 5000, 28000, 34999, 35000, 37000, 80000, 90000}
DensitySamples == {0, 15, 31, 55}
RadiusSamples == {10, 90}
GravitySamples == {750, 981}

CalcInputs ==
    [ mass : MassSamples, radius : RadiusSamples, velocity : VelocitySamples,
      angle : AngleSamples, gravity : GravitySamples, density : DensitySamples ]
    \cup {scenarioPresets[k] : k \in PresetKeys}

NoResult == [k \in IndicatorKeys |-> Fin(0)]

\* no composition generated through draws / asteroid
NoAsteroidCall ==
    /\ draws = [k \in {"roche", "glace", "fer", "nickel"} |-> 0]
    /\ asteroid = << >>
    /\ generated = FALSE

\* no frame sampled through orbIn / orbOut
NoOrbitCall ==
    /\ orbIn = [body |-> "Terre", isSelected |-> FALSE, activeParams |-> << >>, time |-> 0]
    /\ orbOut = << >>
    /\ orbDone = FALSE

InitCalc ==
    /\ calcIn \in CalcInputs
    /\ calcOut = NoResult
    /\ calcDone = FALSE
    /\ NoOrbitCall
    /\ NoAsteroidCall
    /\ InitUI

\* a caller evaluates computeDerivedIndicators(calcIn)
Compute ==
    /\ ~calcDone
    /\ calcOut' = computeDerivedIndicators(calcIn)
    /\ calcDone' = TRUE
    /\ UNCHANGED <<calcIn, orbitVars, asteroidVars, uiVars>>

\* the caller evaluates it again on an argument that differs only in angle
ComputeWithAngle(a) ==
    /\ calcDone
    /\ a # calcIn.angle
    /\ calcIn' = [calcIn EXCEPT !.angle = a]
    /\ calcOut' = computeDerivedIndicators(calcIn')
    /\ UNCHANGED <<calcDone, orbitVars, asteroidVars, uiVars>>

NextCalc ==
    \/ Compute
    \/ \E a \in AngleSamples : ComputeWithAngle(a)

SpecCalc == InitCalc /\ [][NextCalc]_vars

-----------------------------------------------------------------------------
(* One body's frame callback and orbit path, on its own                    *)

\* params tried as activeParams: values within and on both sides of the slider ranges
OrbitRadiusSamples == {0 - 2000, 90, 5000}
OrbitMassSamples == {0 - 200, 80, 700}
OrbitVelocitySamples == {0 - 500, 220, 2000}
OrbitAngleSamples == {5000, 80000}
OrbitTimeSamples == {0, 1, 5, 13}

OrbitParamSamples ==
    [ mass : OrbitMassSamples, radius : OrbitRadiusSamples,
      velocity : OrbitVelocitySamples, angle : OrbitAngleSamples,
      gravity : {981}, density : {31} ]

OrbitInputs ==
    [ body : Bodies, isSelected : BOOLEAN,
      activeParams : {<<p>> : p \in OrbitParamSamples} \cup {<< >>},
      time : OrbitTimeSamples ]

\* the component of orbIn.body renders with orbIn's props, draws its orbit
\* path, and its frame callback runs at orbIn.time
RenderAndFrame(in) ==
    LET def == BodyDefinition[in.body]
        override == OverrideOf(def, in.isSelected, in.activeParams)
    IN  [sample |-> FrameSample(def, override, in.time),
         path |-> OrbitPathPoints(def, PathInclination(def, override), ORBIT_SEGMENTS)]

InitOrbit ==
    /\ orbIn \in OrbitInputs
    /\ orbOut = << >>
    /\ orbDone = FALSE
    /\ calcIn = scenarioPresets.impactor
    /\ calcOut = NoResult
    /\ calcDone = FALSE
    /\ NoAsteroidCall
    /\ InitUI

FirstFrame ==
    /\ ~orbDone
    /\ orbOut' = RenderAndFrame(orbIn)
    /\ orbDone' = TRUE
    /\ UNCHANGED <<orbIn, calcVars, asteroidVars, uiVars>>

\* a later frame of the same component with the same props
LaterFrame(t) ==
    /\ orbDone
    /\ t > orbIn.time
    /\ orbIn' = [orbIn EXCEPT !.time = t]
    /\ orbOut' = RenderAndFrame(orbIn')
    /\ UNCHANGED <<orbDone, calcVars, asteroidVars, uiVars>>

NextOrbit ==
    \/ FirstFrame
    \/ \E t \in OrbitTimeSamples : LaterFrame(t)

SpecOrbit == InitOrbit /\ [][NextOrbit]_vars

-----------------------------------------------------------------------------
(* One asteroid of generateRandomAsteroids, on its own                     *)

\* Math.random() results tried, in thousandths: both ends of [0, 1) and the
\* quarters
RandomSamples == {0, 1, 250, 500, 750, 999}

InitAsteroid ==
    /\ draws \in [{"roche", "glace", "fer", "nickel"} -> RandomSamples]
    /\ asteroid = << >>
    /\ generated = FALSE
    /\ calcIn = scenarioPresets.impactor
    /\ calcOut = NoResult
    /\ calcDone = FALSE
    /\ NoOrbitCall
    /\ InitUI

\* asteroidNames.map((name, index) => ...) builds one definition
Generate ==
    /\ ~generated
    /\ asteroid' = generateComposition(draws)
    /\ generated' = TRUE
    /\ UNCHANGED <<draws, calcVars, orbitVars, uiVars>>

NextAsteroid == Generate

SpecAsteroid == InitAsteroid /\ [][NextAsteroid]_vars

-----------------------------------------------------------------------------
(* The Simulation page as a whole                                          *)

Init ==
    /\ calcIn = scenarioPresets.impactor
    /\ calcOut = NoResult
    /\ calcDone = FALSE
    /\ NoOrbitCall
    /\ NoAsteroidCall
    /\ InitUI

\* the user events, by kind
PresetChange == \E preset \in PresetKeys \cup {"personnalise"} :
    UserEvent(handlePresetChange(preset))
\* a global slider reports a change of its value only
ParamChange == \E key \in ParamKeys : \E value \in SliderValues(key) :
    value # params[key] /\ UserEvent(handleParamChange(key, Fin(value)))
\* onParamChange handed a NaN (parseFloat of a string that is not a number)
ParamChangeNaN == \E key \in ParamKeys : UserEvent(handleParamChange(key, NaN))
ClickPlanet(name) == UserEvent(handlePlanetSelect(name, "simulated"))
ClickAsteroid(name) == UserEvent(handleAsteroidSelect(name, "simulated"))
PointerMissed == UserEvent(onPointerMissed)
MenuSelect(planetName) == UserEvent(handleMenuPlanetSelect(planetName))
CloseCard == UserEvent(CloseAsteroidCard)
PlanetParamChange == \E key \in ParamKeys : \E value \in SliderValues(key) :
    UserEvent(handlePlanetParamChange(key, value))

Next ==
    \/ PresetChange
    \/ ParamChange
    \/ \E name \in Planets : ClickPlanet(name)
    \/ \E name \in Asteroids : ClickAsteroid(name)
    \/ PointerMissed
    \/ \E planetName \in Planets \cup {""} : MenuSelect(planetName)
    \/ CloseCard
    \/ PlanetParamChange
    \/ RunEffects
    \/ Tick

Spec == Init /\ [][Next]_vars

-----------------------------------------------------------------------------
(* The page's presets and global sliders, NaN values included              *)

NextPage ==
    \/ PresetChange
    \/ ParamChange
    \/ ParamChangeNaN
    \/ RunEffects

SpecPage == Init /\ [][NextPage]_vars

-----------------------------------------------------------------------------
(* The viewport with its fetch cycle                                       *)

FetchResolves == \E i \in 1..MaxFetches : \E data \in ResponseSamples :
    FetchSettles(i, "succeeded", data)
FetchRejects == \E i \in 1..MaxFetches : FetchSettles(i, "failed", {})

NextFetch ==
    \/ IntervalFires
    \/ FetchResolves
    \/ FetchRejects
    \/ \E name \in Planets : ClickPlanet(name)
    \/ \E planetName \in Planets \cup {""} : MenuSelect(planetName)
    \/ PointerMissed
    \/ RunEffects
    \/ Tick

SpecFetch == Init /\ [][NextFetch]_vars

-----------------------------------------------------------------------------
(* Properties of computeDerivedIndicators (checked under SpecCalc)         *)

\* C1: for every params within the slider ranges, all seven indicators are
\* finite (neither NaN nor an infinity) and non-negative.
C1_LegalInputsGiveFiniteNonNegative ==
    (calcDone /\ InRange(calcIn)) =>
        \A k \in IndicatorKeys : IsFinite(calcOut[k]) /\ calcOut[k].val >= 0

C1_Witness ==
    calcDone /\ InRange(calcIn) /\ calcIn.mass = 80 /\ calcIn.velocity = 450

\* C2: for every input, in or out of the slider ranges, each result that is a
\* number respects its clamp: crater >= 0.8, tsunami <= 80, warning >= 2,
\* deflection >= 35.
C2_OutputClampsHold ==
    calcDone =>
        /\ ~IsNaN(calcOut.craterDiameterKm) =>
               IsFinite(calcOut.craterDiameterKm) /\ calcOut.craterDiameterKm.val >= 800
        /\ ~IsNaN(calcOut.tsunamiHeight) =>
               ~IsFinite(calcOut.tsunamiHeight) \/ calcOut.tsunamiHeight.val <= 80000
        /\ IsFinite(calcOut.warningHours) /\ calcOut.warningHours.val >= 200000
        /\ IsFinite(calcOut.deflectionDelta) /\ calcOut.deflectionDelta.val >= 35 * 60

C2_Witness ==
    /\ calcDone /\ ~InRange(calcIn)
    /\ calcIn.mass = 0 /\ calcIn.velocity = 600 /\ calcIn.angle = 90000
    /\ calcOut.craterDiameterKm = Fin(800)
    /\ calcOut.warningHours = Fin(200000)
    /\ calcOut.deflectionDelta = Fin(35 * 60)

\* C3: between two calls whose arguments differ only in angle, tsunamiHeight
\* is never above 80, is the same when both angles lie on the same side of 35
\* (35 itself on the upper side), and across the threshold the lower-angle
\* result is min(80, 1.5 x the uncapped upper-angle result).
C3_TsunamiSharpThreshold ==
    [][ ( /\ calcDone /\ calcDone'
          /\ \A k \in ParamKeys \ {"angle"} : calcIn'[k] = calcIn[k]
          /\ IsFinite(calcOut.tsunamiHeight) /\ IsFinite(calcOut'.tsunamiHeight) )
        => LET below == calcIn.angle < 35000
               belowAfter == calcIn'.angle < 35000
               lowAngle == IF below THEN calcOut.tsunamiHeight.val
                           ELSE calcOut'.tsunamiHeight.val
               highAngle == IF below THEN calcOut'.tsunamiHeight.val
                            ELSE calcOut.tsunamiHeight.val
               scaled == (highAngle * 15) \div 10
           IN  /\ calcOut'.tsunamiHeight.val <= 80000
               /\ (below = belowAfter) => calcOut'.tsunamiHeight = calcOut.tsunamiHeight
               /\ (below # belowAfter) =>
                      lowAngle = IF highAngle = 80000 \/ scaled >= 80000
                                 THEN 80000 ELSE scaled
      ]_vars

C3_Witness ==
    /\ calcDone /\ calcIn.angle = 35000
    /\ IsFinite(calcOut.tsunamiHeight)
    /\ calcOut.tsunamiHeight.val > 0 /\ calcOut.tsunamiHeight.val < 80000

C5_DeflectionDelta ==
    calcDone =>
        /\ calcIn.mass * calcIn.velocity <= 2100 => calcOut.deflectionDelta = Fin(35 * 60)
        /\ calcIn.mass * calcIn.velocity > 2100 =>
               calcOut.deflectionDelta = Fin(calcIn.mass * calcIn.velocity)
        /\ calcIn = scenarioPresets.oceanique => calcOut.deflectionDelta = Fin(57 * 60)

C5_Witness == calcDone /\ calcIn = scenarioPresets.oceanique

\* the input of the spec's third scenario: mass 2, velocity 10, angle 80
IsLowScenario(p) == p.mass = 2 /\ p.velocity = 100 /\ p.angle = 80000

\* 18 - velocity x 0.2 + (40 - angle) x 0.1, clamped below at 2, in 1e-5 h
ExpectedWarning(p) ==
    LET sum == 1800000 - p.velocity * 2000 + (40000 - p.angle) * 10
    IN  Fin(IF sum >= 200000 THEN sum ELSE 200000)

\* C6 as stated: warningHours = max(2, 18 - velocity x 0.2 + (40 - angle) x 0.1);
\* for mass 2, velocity 10, angle 80 it is 12 and no intermediate value of the
\* computation is negative.
C6_AsClaimed ==
    calcDone =>
        /\ calcOut.warningHours = ExpectedWarning(calcIn)
        /\ IsLowScenario(calcIn) =>
               /\ calcOut.warningHours = Fin(1200000)
               /\ WarningVelocityTerm(calcIn) >= 0
               /\ WarningAfterVelocity(calcIn) >= 0
               /\ WarningAngleDiff(calcIn) >= 0
               /\ WarningAngleTerm(calcIn) >= 0
               /\ WarningSum(calcIn) >= 0

\* C6 (amended): the same value; for mass 2, velocity 10, angle 80 it is 12, the
\* running values velocity x 0.2 = 2, 18 - 2 = 16 and the sum 12 are not
\* negative, while 40 - angle = -40 and (40 - angle) x 0.1 = -4 are.
C6_WarningHours ==
    calcDone =>
        /\ calcOut.warningHours = ExpectedWarning(calcIn)
        /\ IsLowScenario(calcIn) =>
               /\ calcOut.warningHours = Fin(1200000)
               /\ WarningVelocityTerm(calcIn) = 200000
               /\ WarningAfterVelocity(calcIn) = 1600000
               /\ WarningAngleDiff(calcIn) = 0 - 40000
               /\ WarningAngleTerm(calcIn) = 0 - 400000
               /\ WarningSum(calcIn) = 1200000

C6_Witness == calcDone /\ IsLowScenario(calcIn)

\* C30: the seven results do not depend on gravity or radius: a call whose
\* argument differs from calcIn only in gravity and radius returns what the
\* call on calcIn returned.
C30_GravityRadiusIgnored ==
    calcDone =>
        \A g \in GravitySamples : \A r \in RadiusSamples :
            computeDerivedIndicators([calcIn EXCEPT !.gravity = g, !.radius = r]) = calcOut

C30_Witness ==
    /\ calcDone
    /\ calcIn.gravity = 750 /\ calcIn.radius = 10 /\ calcIn.mass = 28
    /\ calcOut = computeDerivedIndicators([calcIn EXCEPT !.gravity = 981, !.radius = 90])
    /\ calcOut.energy.val > 0

-----------------------------------------------------------------------------
(* Properties of the Simulation page (checked under Spec)                  *)

\* C7: the global params and every stored per-body params lie within the
\* [min, max] of controlDefinitions, whatever presets and sliders were used.
C7_ParamsWithinRanges ==
    /\ InRange(params)
    /\ \A k \in DOMAIN planetParamsRef : InRange(planetParamsRef[k])

C7_Witness ==
    /\ selectedPreset = "personnalise"
    /\ \E k \in Bodies :
          /\ k \in DOMAIN planetParamsRef
          /\ planetParamsRef[k] # planetParamsRef[DEFAULT_TARGET_KEY]
          /\ \E key \in ParamKeys : planetParamsRef[k][key] = controlDefinitions[key].max

\* C8: in every render the indicators handed to the panel are
\* computeDerivedIndicators of that render's params.
C8_DerivedFresh == derived = computeDerivedIndicators(params)

C8_Witness ==
    /\ selectedPreset = "personnalise"
    /\ params.mass = 80
    /\ derived.deflectionDelta = Fin(80 * params.velocity)

\* the bodies whose latest frame applied an override
Overridden == {b \in Bodies : frame[b] # NoOverride}

\* C9: at most one body has an override active, and it is a planet; every
\* other body moves with multipliers 1 and tilt offset 0.
C9_AtMostOneOverride ==
    /\ Cardinality(Overridden) <= 1
    /\ Overridden \subseteq Planets

C9_Witness ==
    \E b \in Planets :
        /\ Overridden = {b}
        /\ \A other \in Bodies \ {b} : frame[other] = NoOverride

\* the bodies drawn as selected: planets by isSelected, asteroids by selectedAsteroid
Highlighted ==
    {b \in Planets : PlanetProps(focusState, b, selectedPlanetParams).isSelected}
        \cup {a \in Asteroids : selectedAsteroid = a}

\* C10: no body is focused initially; selecting a body (click or menu) focuses
\* exactly that body from any state; pointer-missed and the empty menu option
\* leave no body focused.
C10_SelectionStateMachine ==
    /\ focusState = NoFocus
    /\ [][ /\ \A b \in Planets : (ClickPlanet(b) \/ MenuSelect(b)) =>
                  focusState' = PlanetFocus(b) /\ Highlighted' = {b}
           /\ \A a \in Asteroids : ClickAsteroid(a) =>
                  focusState' = AsteroidFocus(a) /\ Highlighted' = {a}
           /\ (PointerMissed \/ MenuSelect("")) =>
                  focusState' = NoFocus /\ Highlighted' = {}
         ]_vars

C10_Witness ==
    /\ focusState.type = "planet"
    /\ activeTargetRef \in Asteroids
    /\ Highlighted = {focusState.name}

-----------------------------------------------------------------------------
(* Selection, overrides and time (checked under Spec)                      *)

\* the overrides body b derives from the props of the latest render, which
\* its next frame applies
RenderedOverride(b) == FrameOf(b, focusState, selectedPlanetParams)

\* C11 as stated: clicking the body that is already focused leaves the focused
\* body, the stored per-body params and the override multipliers unchanged,
\* and the effect that follows dispatches no selected-planet-change.
C11_AsClaimed ==
    [][ /\ \A b \in Planets : (ClickPlanet(b) /\ focusState = PlanetFocus(b)) =>
              /\ focusState' = focusState
              /\ planetParamsRef' = planetParamsRef
              /\ activeTargetRef' = FocusName(focusState')
              /\ \A other \in Bodies : RenderedOverride(other)' = RenderedOverride(other)
        /\ \A a \in Asteroids : (ClickAsteroid(a) /\ focusState = AsteroidFocus(a)) =>
              /\ focusState' = focusState
              /\ planetParamsRef' = planetParamsRef
              /\ activeTargetRef' = FocusName(focusState')
              /\ \A other \in Bodies : RenderedOverride(other)' = RenderedOverride(other)
        /\ (RunEffects /\ "focus" \in pendingEffects
                /\ activeTargetRef = FocusName(focusState)) =>
              UNCHANGED <<activePlanet, planetParams>>
      ]_vars

\* mesh.rotation.y of a body that every frame so far has turned at its static rate
NeverSelectedSpin(b, time) == time * SpinStep(BodyDefinition[b], NoOverride, 1)

\* the frame of body b at elapsed time `time` under override `override` runs on
\* the static orbit: static speed, static inclination, static position
IsStaticMotion(b, override, time) ==
    /\ OrbitSpeed(BodyDefinition[b], override) = BodyDefinition[b].speed
    /\ PathInclination(BodyDefinition[b], override) = BodyDefinition[b].inclination
    /\ FrameSample(BodyDefinition[b], override, time).angle
           = time * BodyDefinition[b].speed + BodyDefinition[b].phase
    /\ FrameSample(BodyDefinition[b], override, time).position
           = FrameSample(BodyDefinition[b], NoOverride, time).position

\* a deselection: pointer-missed or the empty option of the planet menu
Deselect == PointerMissed \/ MenuSelect("")

\* C12 as stated: after a deselection no body is handed an override, and on the
\* next tick a body that is not focused moves with its static speed and
\* inclination and is in the state it would have had it never been selected,
\* accumulated spin included.
C12_AsClaimed ==
    [][ /\ Deselect => \A b \in Bodies : RenderedOverride(b)' = NoOverride
        /\ Tick => \A b \in Bodies : RenderedOverride(b) = NoOverride =>
               /\ frame'[b] = NoOverride
               /\ IsStaticMotion(b, frame'[b], clock')
               /\ spin'[b] = NeverSelectedSpin(b, clock')
      ]_vars

\* C12 (amended): after a deselection no body is handed an override, and on the
\* next tick a body that is not focused moves with its static speed and
\* inclination, is at the position it would have at that elapsed time had it
\* never been selected, and spins at its static rate; its accumulated spin
\* angle keeps whatever it gained while the body was focused.
C12_DeselectRestoresOrbit ==
    [][ /\ Deselect => \A b \in Bodies : RenderedOverride(b)' = NoOverride
        /\ Tick => \A b \in Bodies : RenderedOverride(b) = NoOverride =>
               /\ frame'[b] = NoOverride
               /\ IsStaticMotion(b, frame'[b], clock')
               /\ spin'[b] - spin[b] = SpinStep(BodyDefinition[b], NoOverride, 1)
               /\ spin'[b] - NeverSelectedSpin(b, clock')
                      = spin[b] - NeverSelectedSpin(b, clock)
      ]_vars

C12_Witness ==
    \E b \in Planets :
        /\ focusState = NoFocus
        /\ frame[b] = NoOverride
        /\ spin[b] > NeverSelectedSpin(b, clock)

\* C16 as stated: on every tick the overrides applied to the focused planet are
\* those of the params stored for it at that moment.
C16_AsClaimed ==
    [][ Tick => \A b \in Planets :
            (focusState = PlanetFocus(b) /\ b \in DOMAIN planetParamsRef) =>
                frame'[b] = OverrideOf(BodyDefinition[b], TRUE, <<planetParamsRef[b]>>)
      ]_vars

\* C24: once the page's [selectedPreset] effect has run, a selected preset
\* other than 'personnalise' means the global params are that preset's params,
\* whatever presets were chosen and sliders moved before.
C24_PresetParamsAgree ==
    ("preset" \notin pendingEffects /\ selectedPreset # "personnalise") =>
        params = scenarioPresets[selectedPreset]

C24_Witness ==
    /\ selectedPreset = "impactor" /\ userEvents >= 2 /\ Idle
    /\ params = scenarioPresets.impactor
    /\ planetParamsRef[DEFAULT_TARGET_KEY] = scenarioPresets.impactor

\* C26 as stated: in every state the highlighted asteroid and the focused body
\* agree: selectedAsteroid is set exactly when focusState has type 'asteroid',
\* and then both name the same asteroid.
C26_AsClaimed ==
    /\ (selectedAsteroid # Null) <=> (focusState.type = "asteroid")
    /\ focusState.type = "asteroid" => selectedAsteroid = focusState.name

\* C27 as stated: whenever no body is focused and the effects have run, the
\* snapshot stored for the default target equals the current global params.
C27_AsClaimed ==
    (focusState = NoFocus /\ Idle) => planetParamsRef[DEFAULT_TARGET_KEY] = params

\* C28: once the effects have run, the panel's activePlanet is the name of the
\* focused body (null when none) and, for a focused body, its planetParams are
\* the params the viewport stores for that body; selected-planet-change reaches
\* the panel in exactly the steps in which the focused name changes.
C28_PanelFollowsFocus ==
    /\ [](Idle =>
            /\ activePlanet = focusState.name
            /\ focusState # NoFocus =>
                   /\ focusState.name \in DOMAIN planetParamsRef
                   /\ planetParams = planetParamsRef[focusState.name])
    /\ [][ IF activeTargetRef' # activeTargetRef
           THEN /\ RunEffects
                /\ activeTargetRef' = focusState.name
                /\ activePlanet' = activeTargetRef'
                /\ planetParams' = planetParamsRef'[IF activeTargetRef' = Null
                                                    THEN DEFAULT_TARGET_KEY
                                                    ELSE activeTargetRef']
           ELSE activePlanet' = activePlanet
         ]_vars

C28_Witness ==
    /\ Idle /\ userEvents = 3
    /\ focusState.type = "asteroid" /\ activePlanet = focusState.name
    /\ planetParams = planetParamsRef[focusState.name]
    /\ planetParams # params
    /\ \E b \in Planets : b \in DOMAIN planetParamsRef

\* C22: a per-planet slider change takes effect only while a body is focused;
\* it changes one field of that body's stored params and leaves the global
\* params, the derived indicators and every other stored params as they were.
C22_PlanetSliderIsLocal ==
    [][ PlanetParamChange =>
            /\ focusState # NoFocus
            /\ UNCHANGED <<params, derived>>
            /\ DOMAIN planetParamsRef' = DOMAIN planetParamsRef
            /\ \A k \in DOMAIN planetParamsRef \ {FocusName(focusState)} :
                   planetParamsRef'[k] = planetParamsRef[k]
            /\ Cardinality({key \in ParamKeys :
                   planetParamsRef'[FocusName(focusState)][key]
                       # planetParamsRef[FocusName(focusState)][key]}) = 1
      ]_vars

C22_Witness ==
    \E a, b \in Bodies :
        /\ a # b /\ {a, b} \subseteq DOMAIN planetParamsRef
        /\ FocusName(focusState) = a /\ activePlanet = a
        /\ planetParamsRef[a] # planetParamsRef[b]
        /\ planetParamsRef[a] = planetParams
        /\ planetParamsRef[b] = params
        /\ planetParamsRef[DEFAULT_TARGET_KEY] = params

-----------------------------------------------------------------------------
(* Properties of handleParamChange (checked under SpecPage)                *)

\* C25: handleParamChange(key, value) leaves every field of params as it was
\* when value is NaN and changes only field key otherwise; either way
\* selectedPreset becomes 'personnalise', and while it is 'personnalise' the
\* effects that run afterwards leave params alone.
C25_HandleParamChange ==
    [][ /\ \A key \in ParamKeys :
               /\ UserEvent(handleParamChange(key, NaN)) =>
                      params' = params /\ selectedPreset' = "personnalise"
               /\ \A v \in SliderValues(key) :
                      UserEvent(handleParamChange(key, Fin(v))) =>
                          /\ params'[key] = v
                          /\ \A other \in ParamKeys \ {key} : params'[other] = params[other]
                          /\ selectedPreset' = "personnalise"
        /\ (RunEffects /\ selectedPreset = "personnalise") =>
               params' = params /\ selectedPreset' = "personnalise"
      ]_vars

C25_Witness ==
    /\ selectedPreset = "personnalise" /\ userEvents = 2 /\ Idle
    /\ params = scenarioPresets.oceanique
    /\ planetParamsRef[DEFAULT_TARGET_KEY] = params

-----------------------------------------------------------------------------
(* Properties of a generated asteroid (checked under SpecAsteroid)         *)

\* C23 as stated: the five displayed percentages of a generated asteroid
\* total exactly 100, whatever the random draws.
C23_AsClaimed == generated => CompositionTotal(asteroid) = 100

-----------------------------------------------------------------------------
(* Properties of one body's frame (checked under SpecOrbit)                *)

\* the body of orbIn is focused and params are stored for it
OrbFocused == orbDone /\ orbIn.isSelected /\ orbIn.activeParams # << >>

\* clamp(1 + velocity x 0.03, 0.25, 4.5), in 1e-4
ClaimedSpeedMultiplier(p) == clamp(10000 + p.velocity * 30, 2500, 45000)

\* C13 as stated: for any focused body the orbital angle at elapsed time t is
\* t x speed x clamp(1 + velocity x 0.03, 0.25, 4.5) + phase.
C13_AsClaimed ==
    OrbFocused =>
        LET def == BodyDefinition[orbIn.body]
            p == orbIn.activeParams[1]
        IN  orbOut.sample.angle
                = orbIn.time * MulDiv(def.speed, ClaimedSpeedMultiplier(p), 10000)
                      + def.phase

\* C14 as stated: for any focused body the position of each tick is tilted by
\* static inclination + degToRad(angle) x 0.02, the inclination its orbit path
\* is drawn with.
C14_AsClaimed ==
    OrbFocused =>
        LET def == BodyDefinition[orbIn.body]
            effective == def.inclination + orbIn.activeParams[1].angle * 2
        IN  /\ orbOut.sample.positionInclination = effective
            /\ orbOut.sample.pathInclination = effective
            /\ orbOut.sample.position
                   = ApplyTilt(orbOut.sample.planar.x, orbOut.sample.planar.z, effective)

\* C15 as stated: for any focused planet, Earth included, and any params, the
\* size multiplier is clamp(1 + radius x 0.08, 0.4, 4.2) and the spin
\* multiplier is clamp(1 + mass x 0.005, 0.5, 4.2).
C15_AsClaimed ==
    (OrbFocused /\ orbIn.body \in Planets) =>
        LET p == orbIn.activeParams[1]
        IN  /\ orbOut.sample.override.radiusMultiplier
                   = clamp(10000 + p.radius * 8, 4000, 42000)
            /\ orbOut.sample.override.rotationMultiplier
                   = clamp(10000 + p.mass * 50, 5000, 42000)

\* C17: the orbit path of a body has ORBIT_SEGMENTS + 1 = 241 points, sampled
\* at evenly spaced angles from 0 to 2 pi inclusive, and its first and last
\* points coincide.
C17_OrbitPathClosed ==
    orbDone =>
        /\ Len(orbOut.path) = ORBIT_SEGMENTS + 1
        /\ Len(orbOut.path) = 241
        /\ orbOut.path[1] = orbOut.path[Len(orbOut.path)]
        /\ PathTheta(0, ORBIT_SEGMENTS) = 0
        /\ PathTheta(Len(orbOut.path) - 1, ORBIT_SEGMENTS) = 62830
        /\ \A i \in 1..(Len(orbOut.path) - 1) :
               PathTheta(i, ORBIT_SEGMENTS) - PathTheta(i - 1, ORBIT_SEGMENTS) \in 261..262
        /\ \A i \in 1..Len(orbOut.path) :
               LET theta == PathTheta(i - 1, ORBIT_SEGMENTS)
                   def == BodyDefinition[orbIn.body]
               IN  orbOut.path[i]
                       = ApplyTilt((MathCos(theta) * def.semiMajorAxis) \div 1000
                                       - MulDiv(def.semiMajorAxis, def.eccentricity, 10000),
                                   (MathSin(theta) * OrbitSemiMinor(def)) \div 1000,
                                   orbOut.sample.pathInclination)

C17_Witness ==
    /\ orbDone /\ orbIn.body = "Mercure" /\ orbIn.isSelected
    /\ orbIn.activeParams # << >>
    /\ orbOut.path[61].y # 0
    /\ orbOut.path[241] = orbOut.path[1]

\* C18: for a body that is not overridden the untilted position is
\* (cos(theta) x a - a x e, 0, sin(theta) x b) with theta = t x speed + phase: a
\* point of the ellipse whose centre is at x = - a x e; with phase 0 and t = 0
\* it is the periapsis (a x (1 - e), 0, 0).
C18_PlanarPosition ==
    (orbDone /\ orbOut.sample.override = NoOverride) =>
        LET def == BodyDefinition[orbIn.body]
            a == def.semiMajorAxis
            ae == MulDiv(a, def.eccentricity, 10000)
            theta == orbIn.time * def.speed + def.phase
            planar == orbOut.sample.planar
            cx == ((planar.x + ae) * 1000) \div a
            cz == (planar.z * 1000) \div OrbitSemiMinor(def)
        IN  /\ orbOut.sample.angle = theta
            /\ planar.x = (MathCos(theta) * a) \div 1000 - ae
            /\ planar.y = 0
            /\ planar.z = (MathSin(theta) * OrbitSemiMinor(def)) \div 1000
            /\ cx * cx + cz * cz \in 990000..1010000
            /\ (orbIn.time = 0 /\ def.phase = 0) =>
                   planar = [x |-> a - ae, y |-> 0, z |-> 0] /\ a - ae < a

C18_Witness ==
    /\ orbDone /\ orbOut.sample.override = NoOverride
    /\ orbIn.time = 0
    /\ orbOut.sample.planar.x = 12384 - 2546

-----------------------------------------------------------------------------
(* Properties of the fetch cycle (checked under SpecFetch)                 *)

\* the state of the latest call of fetchAstronomyData
MostRecentFetch == fetchLog[Len(fetchLog)]

\* C19 as stated: on every tick that runs while the most recent fetch is
\* pending or has failed, every planet's stored position, the Earth position
\* and the camera focus target are copied from the simulated position.
C19_AsClaimed ==
    [][ (Tick /\ MostRecentFetch \in {"pending", "failed"}) =>
            /\ \A b \in Planets : published'[b] = "simulated"
            /\ focusPositionRef' # "api"
      ]_vars

\* C21 as stated: once the response of a later-started call has been applied,
\* the response of an earlier-started call is never applied afterwards: the
\* call whose response astronomyData holds never moves back to an earlier one.
C21_AsClaimed == [][dataCycle' >= dataCycle]_vars

\* the calls of fetchAstronomyData still awaiting their response
InFlight == {i \in DOMAIN fetchLog : fetchLog[i] = "pending"}

\* C29 as stated: apiLoading is TRUE exactly while at least one call is
\* awaiting its response.
C29_AsClaimed == apiLoading = (InFlight # {})

\* C20: no rejection ever leaves fetchAstronomyData uncaught, and whatever the
\* fetch state (pending, failed, succeeded) the next frame is enabled as
\* soon as the pending effects have run, as long as the run is followed.
C20_TicksInEveryFetchState ==
    /\ ~escaped
    /\ (Idle /\ clock < MaxFrames) => ENABLED Tick

C20_Witness ==
    /\ fetchLog = <<"failed", "pending">>
    /\ apiError = Null /\ apiLoading
    /\ clock < MaxFrames /\ Idle
    /\ ENABLED Tick

====
